---- MODULE Spec2Model ----
(***************************************************************************)
(* AI-SOL frontend: the live-connection transport (WebSocketService), the   *)
(* event router (EventHandler), the Dashboard state machine and the         *)
(* ProgressTimeline stage map, as one state machine.                        *)
(*                                                                          *)
(* One step of the model is one task of the browser's event loop: a socket  *)
(* callback, a timer callback, the continuation of an awaited HTTP call, a  *)
(* user gesture, or a React commit (mount, route change, unmount) together  *)
(* with the state updates, the render and the effects it triggers.          *)
(***************************************************************************)
EXTENDS Integers, Sequences, FiniteSets, TLC

(***************************************************************************)
(* Bounds of the model.                                                     *)
(***************************************************************************)
MaxSockets == 2        \* sockets that may be alive (not yet closed) at once
MaxTimers == 2         \* reconnect timers that may be pending at once
MaxRecv == 2           \* envelopes a probe subscriber counts
MaxEvents == 2         \* workflow events the router takes (history plus pending imports)
MaxChat == 3           \* transcript entries
MaxPolls == 2          \* status polls in flight
MaxChatReqs == 2       \* chat requests in flight
MaxBackoff == 1        \* poll backoff timers pending
MaxRetry == 2          \* poll-failure counter
MaxListeners == 2      \* callbacks registered by on() per event type
MaxLimit == 3          \* largest limit passed to getHistory
MaxTime == 2           \* clock ticks
MaxClock == 6          \* seconds the clock may reach by waiting

(***************************************************************************)
(* Program constants.                                                       *)
(***************************************************************************)
reconnectInterval == 3000
maxReconnectAttempts == 10
ChatDedupMs == 2000     \* CHAT_MESSAGE / CHAT_RESPONSE duplicate window
SendDedupMs == 5000     \* handleSendMessage double-submit window
BackoffBaseMs == 1000
BackoffCapMs == 10000

Projects == {"A", "B"}
NoProject == "none"
NoSocket == 0
Slots == 1..MaxSockets
Null == [kind |-> "null"]
STAGES == <<"requirements", "architecture", "developer", "qa", "devops">>
StageNames == {STAGES[i] : i \in 1..Len(STAGES)}
Probes == {"c1", "c2"}
DashCb == "dashboard"
ThrowCb == "thrower"    \* a subscriber that throws on every message it is handed
ApproveText == "approve"
SendErrorText == "Sorry, I encountered an error processing your message. Please check your connection."
GreetingText == "Welcome to AI-SOL!"

VARIABLES
    \* ---- WebSocketService
    ws,                 \* .ws: the slot of the current socket, or NoSocket
    sockets,            \* the browser's sockets that have not yet fired their close event
    projectId,          \* .projectId
    reconnectAttempts,  \* .reconnectAttempts
    timers,             \* pending setTimeout(() => this._connect(), delay): their delays
    callbacks,          \* .callbacks, in subscription order
    wsOut,              \* number of frames sent over the live channel by sendMessage
    recv,               \* what each probe subscriber was last handed, and how many envelopes
    \* ---- EventHandler
    listeners,          \* .listeners: event type (or "*") -> callbacks in registration order
    eventHistory,       \* .eventHistory
    pendingImports,     \* workflow events waiting for import('./event_handler').then(...)
    heard,              \* what the probe listeners were called with, in call order
    returned,           \* the arguments and the result of the last getHistory call
    \* ---- ProgressTimeline
    stages,             \* useState stages: stage -> [status, events]
    \* ---- Dashboard
    mounted,            \* a Dashboard instance is mounted
    dashProjectId,      \* useParams().projectId of the mounted Dashboard
    status,
    files,
    chatMessages,
    selectedFile,
    isChatLoading,
    isConnected,
    awaitingReview,
    retryCount,
    captured,           \* files, selectedFile, retryCount as closed over by the connection effect
    polls,              \* getProjectStatus calls in flight
    chatReqs,           \* POST /chat calls in flight
    backoffTimers,      \* pending setTimeout(() => setRetryCount(c => c + 1), timeout): their delays
    localStorage,       \* chat_{id} and status_{id}
    now                 \* Date.now(), in ticks

tvars == <<ws, sockets, projectId, reconnectAttempts, timers>>
svars == <<callbacks, wsOut, recv>>
rvars == <<listeners, eventHistory, pendingImports, heard, returned>>
pvars == <<stages>>
dvars == <<files, chatMessages, selectedFile, isChatLoading, isConnected, awaitingReview>>
lvars == <<mounted, dashProjectId, captured>>
hvars == <<status, retryCount, polls, chatReqs, backoffTimers, localStorage>>
vars == <<tvars, svars, rvars, pvars, dvars, lvars, hvars, now>>

(***************************************************************************)
(* Sockets.  A slot holds a socket from `new WebSocket` until its close     *)
(* event has been handled.  st is the socket's readyState; closedBy says    *)
(* which code called close() on it.                                         *)
(***************************************************************************)
FreeSocket == [st |-> "free", proj |-> NoProject, closedBy |-> "none"]

NewSocket(p) == [st |-> "connecting", proj |-> p, closedBy |-> "none"]

Live(socks) == {s \in Slots : socks[s].st # "free"}

FreeSlot(socks) == CHOOSE s \in Slots : socks[s].st = "free" /\ \A r \in Slots : socks[r].st = "free" => s <= r

\* WebSocket.close(): CONNECTING and OPEN go to CLOSING, the close event follows later
CloseSocket(sock, who) == IF sock.st \in {"connecting", "open"} THEN [sock EXCEPT !.st = "closing", !.closedBy = who] ELSE sock

(***************************************************************************)
(* WebSocketService, as functions on the record of its fields.              *)
(***************************************************************************)
T == [ws |-> ws, sockets |-> sockets, projectId |-> projectId, reconnectAttempts |-> reconnectAttempts, timers |-> timers]

SetT(t) ==
    /\ ws' = t.ws
    /\ sockets' = t.sockets
    /\ projectId' = t.projectId
    /\ reconnectAttempts' = t.reconnectAttempts
    /\ timers' = t.timers

\* _connect can run within the model's bound on live sockets
CanConnect(t) == t.projectId = NoProject \/ Live(t.sockets) # Slots

_connect(t) ==
    IF t.projectId = NoProject THEN t
    ELSE LET s == FreeSlot(t.sockets)
         IN [t EXCEPT !.sockets[s] = NewSocket(t.projectId), !.ws = s]

connect(t, p) == _connect([t EXCEPT !.projectId = p, !.reconnectAttempts = 0])

\* mutant: the cap compared with <=, one attempt too many
_reconnectOffByOne(t) ==
    IF t.reconnectAttempts <= maxReconnectAttempts
    THEN [t EXCEPT !.reconnectAttempts = @ + 1, !.timers = Append(@, reconnectInterval)]
    ELSE t

_reconnect(t) ==
    IF t.reconnectAttempts < maxReconnectAttempts
    THEN [t EXCEPT !.reconnectAttempts = @ + 1, !.timers = Append(@, reconnectInterval)]
    ELSE t

disconnect(t) ==
    LET t1 == IF t.ws # NoSocket
              THEN [t EXCEPT !.sockets[t.ws] = CloseSocket(@, "disconnect"), !.ws = NoSocket]
              ELSE t
    IN [t1 EXCEPT !.projectId = NoProject]

\* mutant: the attempt counter survives a successful open
onopenNoReset(t) == t

\* ws.onopen, the transport's part
onopen(t) == [t EXCEPT !.reconnectAttempts = 0]

\* ws.onclose of the socket in slot s, the transport's part; the slot is released
\* threw: _notifyConnectionStatus(false) threw, which ends the handler before _reconnect()
onclose(t, s, threw) ==
    LET closed == [t EXCEPT !.ws = NoSocket, !.sockets[s] = FreeSocket]
    IN IF threw THEN closed ELSE _reconnect(closed)

\* ws.onerror of the socket in slot s: closes the CURRENT socket; the browser
\* then closes the failed socket s itself
onerror(t, s) ==
    LET t1 == IF t.ws # NoSocket THEN [t EXCEPT !.sockets[t.ws] = CloseSocket(@, "onerror")] ELSE t
    IN [t1 EXCEPT !.sockets[s] = CloseSocket(@, "browser")]

(***************************************************************************)
(* Envelopes and inbound frames.  A JSON value is a record with its kind;   *)
(* an object carries its members as further fields.  A frame is the text    *)
(* the socket hands to onmessage: raw names the text, json says whether     *)
(* JSON.parse accepts it and value is what it parses to.                    *)
(***************************************************************************)
Obj(type) == [kind |-> "object", type |-> type]

LogMessage(text) == [kind |-> "object", type |-> "LOG", level |-> "info", message |-> text, agent |-> "SYSTEM"]

FileGeneratedMessage(path, filename, content, focus) ==
    [kind |-> "object", type |-> "FILE_GENERATED", path |-> path, filename |-> filename, content |-> content, auto_focus |-> focus]

ChatMessageType(role, content, ts) == [kind |-> "object", type |-> "CHAT_MESSAGE", role |-> role, content |-> content, timestamp |-> ts]

ChatResponseMessage(message, ts) == [kind |-> "object", type |-> "CHAT_RESPONSE", message |-> message, timestamp |-> ts]

AwaitingReviewMessage(stage) == [kind |-> "object", type |-> "AWAITING_REVIEW", stage |-> stage]

ConnectionStatusMessage(connected) == [kind |-> "object", type |-> "CONNECTION_STATUS", connected |-> connected]

WorkflowEventMessage(ev) == [kind |-> "object", type |-> "workflow_event", event |-> ev]

WorkflowEvent(type, proj, stage) == [event_type |-> type, project_id |-> proj, stage |-> stage]

NoStage == "undefined"

\* the member `type` of a parsed value; undefined for a number, a string, an object without it
TypeOf(v) == IF v.kind = "object" /\ "type" \in DOMAIN v THEN v.type ELSE "undefined"

\* the closed union WebSocketMessage
RecognizedTypes == {"LOG", "FILE_GENERATED", "CHAT_MESSAGE", "CHAT_RESPONSE", "AWAITING_REVIEW", "STATUS_UPDATE", "CONNECTION_STATUS", "workflow_event"}

IsWebSocketMessage(v) ==
    /\ TypeOf(v) \in RecognizedTypes
    /\ TypeOf(v) = "workflow_event" => "event" \in DOMAIN v

TextFrame(raw) == [raw |-> raw, json |-> FALSE, value |-> Null]

JsonFrame(raw, v) == [raw |-> raw, json |-> TRUE, value |-> v]

Env(v) == JsonFrame("json", v)

\* JSON.parse(event.data): the value, or a SyntaxError
JSONparse(frame) == IF frame.json THEN [ok |-> TRUE, data |-> frame.value] ELSE [ok |-> FALSE, data |-> Null]

\* new Date(timestamp).getTime(): timestamps are counted in ticks of one second
getTime(ts) == ts * 1000

(***************************************************************************)
(* Dashboard: the subscribe callback, on the record d of the state it       *)
(* sets.  filesChanged records that setFiles produced a new array in this   *)
(* task, which is what re-runs the auto-select effect.                      *)
(***************************************************************************)
D == [files |-> files, filesChanged |-> FALSE, selectedFile |-> selectedFile, chatMessages |-> chatMessages,
      isChatLoading |-> isChatLoading, isConnected |-> isConnected, awaitingReview |-> awaitingReview]

FileOf(m) == [path |-> m.path, filename |-> m.filename, content |-> m.content]

\* prev.findIndex(f => f.filename === message.filename), 0 for -1
findIndexByFilename(prev, name) ==
    IF \E i \in 1..Len(prev) : prev[i].filename = name
    THEN CHOOSE i \in 1..Len(prev) : prev[i].filename = name /\ \A j \in 1..(i - 1) : prev[j].filename # name
    ELSE 0

\* the FILE_GENERATED updater of setFiles
upsertFile(prev, file) ==
    LET existingIndex == findIndexByFilename(prev, file.filename)
    IN IF existingIndex >= 1 THEN [prev EXCEPT ![existingIndex] = file] ELSE Append(prev, file)

\* the isDuplicate test of the CHAT_MESSAGE and CHAT_RESPONSE updaters
Abs(x) == IF x < 0 THEN -x ELSE x

\* mutant: the window compared with <=
isDuplicateInclusive(prev, role, content, ts) ==
    \E i \in 1..Len(prev) :
        /\ prev[i].role = role
        /\ prev[i].content = content
        /\ Abs(getTime(prev[i].timestamp) - getTime(ts)) <= ChatDedupMs

isDuplicate(prev, role, content, ts) ==
    \E i \in 1..Len(prev) :
        /\ prev[i].role = role
        /\ prev[i].content = content
        /\ Abs(getTime(prev[i].timestamp) - getTime(ts)) < ChatDedupMs

appendChat(prev, role, content, ts) ==
    IF isDuplicate(prev, role, content, ts) THEN prev
    ELSE Append(prev, [role |-> role, content |-> content, timestamp |-> ts])

onFileGenerated(d, m) ==
    [d EXCEPT !.files = upsertFile(@, FileOf(m)),
              !.filesChanged = TRUE,
              !.selectedFile = IF m.auto_focus THEN FileOf(m) ELSE @]

onConnectionStatus(d, m) == [d EXCEPT !.isConnected = m.connected]

onChatMessage(d, m) == [d EXCEPT !.chatMessages = appendChat(@, m.role, m.content, m.timestamp)]

onChatResponse(d, m) ==
    [d EXCEPT !.isChatLoading = FALSE,
              !.chatMessages = appendChat(@, "ai", m.message, m.timestamp)]

\* files and selectedFile are the ones the effect closed over, not the current state
onAwaitingReview(d, m, cap) ==
    [d EXCEPT !.awaitingReview = TRUE,
              !.selectedFile = IF Len(cap.files) > 0 /\ cap.selectedFile = Null
                               THEN cap.files[Len(cap.files)] ELSE @]

subscribeCallback(d, m, cap) ==
    LET ty == TypeOf(m)
    IN CASE ty = "FILE_GENERATED" -> onFileGenerated(d, m)
         [] ty = "CONNECTION_STATUS" -> onConnectionStatus(d, m)
         [] ty = "CHAT_MESSAGE" -> onChatMessage(d, m)
         [] ty = "CHAT_RESPONSE" -> onChatResponse(d, m)
         [] ty = "AWAITING_REVIEW" -> onAwaitingReview(d, m, cap)
         [] OTHER -> d

\* the auto-select effect, deps [files]
autoSelect(d) ==
    IF d.filesChanged /\ Len(d.files) > 0 /\ d.selectedFile = Null
    THEN [d EXCEPT !.selectedFile = d.files[Len(d.files)]]
    ELSE d

\* the fetchStatus merge of data.generated_files into files
RECURSIVE mergeServerFiles(_, _)
mergeServerFiles(newFiles, serverFiles) ==
    IF serverFiles = <<>> THEN newFiles
    ELSE LET serverFile == Head(serverFiles)
             known == \E i \in 1..Len(newFiles) : newFiles[i].path = serverFile.path
         IN mergeServerFiles(IF known THEN newFiles ELSE Append(newFiles, serverFile), Tail(serverFiles))

\* mutant: an entry exactly 5000 ms old still counts as recent
optimisticAppendInclusive(prev, message, t) ==
    IF \E i \in 1..Len(prev) :
           /\ prev[i].content = message
           /\ prev[i].role = "user"
           /\ getTime(prev[i].timestamp) >= getTime(t) - SendDedupMs
    THEN prev
    ELSE Append(prev, [role |-> "user", content |-> message, timestamp |-> t])

\* the optimistic updater of handleSendMessage
optimisticAppend(prev, message, t) ==
    IF \E i \in 1..Len(prev) :
           /\ prev[i].content = message
           /\ prev[i].role = "user"
           /\ getTime(prev[i].timestamp) > getTime(t) - SendDedupMs
    THEN prev
    ELSE Append(prev, [role |-> "user", content |-> message, timestamp |-> t])

\* Math.min(1000 * Math.pow(2, retryCount), 10000)
RECURSIVE pow2(_)
pow2(n) == IF n = 0 THEN 1 ELSE 2 * pow2(n - 1)

Min(a, b) == IF a < b THEN a ELSE b

backoffTimeout(retry) == Min(BackoffBaseMs * pow2(retry), BackoffCapMs)

(***************************************************************************)
(* Durable session cache.                                                   *)
(***************************************************************************)
\* the two persist effects, run when chatMessages, status or projectId changed
persist(ls, p, chat, stat, chatDirty, statDirty) ==
    LET ls1 == IF chatDirty /\ p # NoProject /\ Len(chat) > 0 THEN [ls EXCEPT !.chat[p] = chat] ELSE ls
    IN IF statDirty /\ p # NoProject /\ stat # Null THEN [ls1 EXCEPT !.status[p] = stat] ELSE ls1

(***************************************************************************)
(* ProgressTimeline.handleEvent and EventHandler.handleEvent.               *)
(***************************************************************************)
TimelineCb(p) == [kind |-> "timeline", proj |-> p]

InitialStages == [st \in StageNames |-> [status |-> "pending", events |-> <<>>]]

\* mutant: an event type that is no status change resets the stage
stageStatusResetting(old, type) ==
    CASE type = "stage_started" -> "running"
      [] type = "stage_completed" -> "completed"
      [] type = "stage_failed" -> "failed"
      [] OTHER -> "pending"

stageStatus(old, type) ==
    CASE type = "stage_started" -> "running"
      [] type = "stage_completed" -> "completed"
      [] type = "stage_failed" -> "failed"
      [] OTHER -> old

\* ProgressTimeline's handleEvent, closed over projectId p
timelineHandleEvent(stgs, p, event) ==
    IF event.project_id # p THEN stgs
    ELSE IF event.stage = NoStage THEN stgs
    ELSE IF event.stage \notin DOMAIN stgs THEN stgs
    ELSE [stgs EXCEPT ![event.stage] = [status |-> stageStatus(@.status, event.event_type),
                                        events |-> Append(@.events, event)]]

\* EventHandler.on and EventHandler.off
on(ls, type, cb) == IF type \in DOMAIN ls THEN [ls EXCEPT ![type] = Append(@, cb)] ELSE ls @@ (type :> <<cb>>)

indexOf(cbs, cb) ==
    IF \E i \in 1..Len(cbs) : cbs[i] = cb
    THEN CHOOSE i \in 1..Len(cbs) : cbs[i] = cb /\ \A j \in 1..(i - 1) : cbs[j] # cb
    ELSE 0

splice(cbs, i) == [j \in 1..(Len(cbs) - 1) |-> IF j < i THEN cbs[j] ELSE cbs[j + 1]]

off(ls, type, cb) ==
    IF type \notin DOMAIN ls THEN ls
    ELSE LET index == indexOf(ls[type], cb)
         IN IF index >= 1 THEN [ls EXCEPT ![type] = splice(@, index)] ELSE ls

\* probe listeners: one that returns, one that throws after recording its call
ListenerCbs == {[kind |-> "probe", name |-> "l1"], [kind |-> "thrower", name |-> "l2"]}

\* a listener that unregisters itself when it is called: eventHandler.off(type, itself)
OnceCb(type) == [kind |-> "once", name |-> "l3", type |-> type]

ListenersFor(ls, type) == IF type \in DOMAIN ls THEN ls[type] ELSE <<>>

\* callback(event): the effect and whether it threw; acc is the stage map, the probes'
\* record and the listener map
invokeListener(cb, event, acc) ==
    CASE cb.kind = "timeline" -> [acc |-> [acc EXCEPT !.stgs = timelineHandleEvent(@, cb.proj, event)], threw |-> FALSE]
      [] cb.kind = "probe" -> [acc |-> [acc EXCEPT !.heard = Append(@, [cb |-> cb, event |-> event])], threw |-> FALSE]
      [] cb.kind = "thrower" -> [acc |-> [acc EXCEPT !.heard = Append(@, [cb |-> cb, event |-> event])], threw |-> TRUE]
      [] cb.kind = "once" -> [acc |-> [acc EXCEPT !.heard = Append(@, [cb |-> cb, event |-> event]),
                                                   !.ls = off(@, cb.type, cb)], threw |-> FALSE]
      [] OTHER -> [acc |-> acc, threw |-> FALSE]

\* mutant: no try/catch around the callback, the first throw ends the loop
RECURSIVE forEachListenerUncaught(_, _, _, _, _)
forEachListenerUncaught(type, k, len, event, acc) ==
    IF k > len \/ k > Len(ListenersFor(acc.ls, type)) THEN acc
    ELSE LET r == invokeListener(ListenersFor(acc.ls, type)[k], event, acc)
         IN IF r.threw THEN r.acc ELSE forEachListenerUncaught(type, k + 1, len, event, r.acc)

\* listeners.forEach(callback => { try { callback(event) } catch (error) { console.error(...) } })
\* on the array registered under type: forEach visits the indexes k..len of the array as it
\* is when it gets to them, len being the length at the start of the loop
RECURSIVE forEachListener(_, _, _, _, _)
forEachListener(type, k, len, event, acc) ==
    IF k > len \/ k > Len(ListenersFor(acc.ls, type)) THEN acc
    ELSE LET r == invokeListener(ListenersFor(acc.ls, type)[k], event, acc)
         IN forEachListener(type, k + 1, len, event, r.acc)

\* EventHandler.handleEvent after the push: the typed listeners, then the wildcard listeners
handleEvent(ls, event, acc) ==
    LET acc0 == [stgs |-> acc.stgs, heard |-> acc.heard, ls |-> ls]
        acc1 == forEachListener(event.event_type, 1, Len(ListenersFor(ls, event.event_type)), event, acc0)
    IN forEachListener("*", 1, Len(ListenersFor(acc1.ls, "*")), event, acc1)

\* an optional argument: omitted, or given with a value
Omitted == <<>>

Given(v) == <<v>>

\* Array.prototype.slice(start) with one argument
slice(xs, start) ==
    LET from == IF start < 0 THEN (IF Len(xs) + start < 0 THEN 0 ELSE Len(xs) + start)
                ELSE (IF start > Len(xs) THEN Len(xs) ELSE start)
    IN SubSeq(xs, from + 1, Len(xs))

\* EventHandler.getHistory: an omitted or empty eventType and an omitted or zero limit are falsy
getHistory(history, eventType, limit) ==
    LET filtered == IF eventType # Omitted /\ eventType[1] # ""
                    THEN SelectSeq(history, LAMBDA e : e.event_type = eventType[1])
                    ELSE history
    IN IF limit # Omitted /\ limit[1] # 0 THEN slice(filtered, -limit[1]) ELSE filtered

\* Array.prototype.reverse()
reverse(xs) == [i \in 1..Len(xs) |-> xs[Len(xs) + 1 - i]]

\* EventHandler.getCurrentStage: the stage of the latest event that has one, or null
getCurrentStage(history) ==
    LET stageEvents == reverse(SelectSeq(history, LAMBDA e : e.stage # NoStage /\ e.stage # ""))
    IN IF Len(stageEvents) > 0 THEN [kind |-> "string", stage |-> stageEvents[1].stage] ELSE Null

(***************************************************************************)
(* WebSocketService: publishing to the subscribers.                         *)
(***************************************************************************)
invokeCallback(cb, m, acc, cap) ==
    IF cb = DashCb THEN [acc EXCEPT !.d = subscribeCallback(@, m, cap)]
    ELSE IF cb = ThrowCb THEN [acc EXCEPT !.threw = TRUE]
    ELSE [acc EXCEPT !.recv[cb] = [last |-> m, n |-> @.n + 1]]

\* this.callbacks.forEach(callback => callback(message)): a callback that throws ends the loop
RECURSIVE forEachCallback(_, _, _, _)
forEachCallback(cbs, m, acc, cap) ==
    IF cbs = <<>> \/ acc.threw THEN acc
    ELSE forEachCallback(Tail(cbs), m, invokeCallback(Head(cbs), m, acc, cap), cap)

\* what ws.onmessage hands to the subscribers for a frame
decode(frame) ==
    LET parsed == JSONparse(frame)
    IN IF parsed.ok /\ parsed.data.kind # "null"
       THEN parsed.data
       ELSE LogMessage(frame.raw)

\* mutant: the nested event is handed to the router twice
forwardedTwice(frame) ==
    LET parsed == JSONparse(frame)
    IN IF parsed.ok /\ parsed.data.kind # "null" /\ TypeOf(parsed.data) = "workflow_event" /\ "event" \in DOMAIN parsed.data
       THEN <<parsed.data.event, parsed.data.event>>
       ELSE <<>>

\* the nested events ws.onmessage forwards to the event router for a frame
forwarded(frame) ==
    LET parsed == JSONparse(frame)
    IN IF parsed.ok /\ parsed.data.kind # "null" /\ TypeOf(parsed.data) = "workflow_event" /\ "event" \in DOMAIN parsed.data
       THEN <<parsed.data.event>>
       ELSE <<>>

\* ws.onmessage on the subscribers: the try block hands them the parsed value; whatever is
\* thrown in it, by JSON.parse, by data.type of null or by a subscriber, leads to the catch
\* block, which hands them the fallback LOG message outside any try
onmessage(cbs, frame, acc, cap) ==
    LET parsed == JSONparse(frame)
        parses == parsed.ok /\ parsed.data.kind # "null"
        tried == IF parses THEN forEachCallback(cbs, parsed.data, acc, cap) ELSE acc
    IN IF parses /\ ~tried.threw THEN tried
       ELSE forEachCallback(cbs, LogMessage(frame.raw), [tried EXCEPT !.threw = FALSE], cap)

removeCallback(cbs, cb) == SelectSeq(cbs, LAMBDA c : c # cb)

(***************************************************************************)
(* Initial state: the module-level singletons after construction, no        *)
(* Dashboard mounted, an empty browser store.                               *)
(***************************************************************************)
NoMsg == [kind |-> "none"]

NoCapture == [files |-> <<>>, selectedFile |-> Null, retryCount |-> 0]

InitT ==
    /\ ws = NoSocket
    /\ sockets = [s \in Slots |-> FreeSocket]
    /\ projectId = NoProject
    /\ reconnectAttempts = 0
    /\ timers = <<>>
    /\ callbacks = <<>>
    /\ wsOut = 0
    /\ recv = [c \in Probes |-> [last |-> NoMsg, n |-> 0]]

\* the console listeners registered when the module is loaded
DefaultListeners ==
    [type \in {"workflow_started", "workflow_completed", "error_occurred", "human_input_required"} |->
        <<[kind |-> "console", name |-> type]>>]

NoCall == [args |-> <<>>, value |-> <<>>]

InitR ==
    /\ listeners = DefaultListeners
    /\ eventHistory = <<>>
    /\ pendingImports = <<>>
    /\ heard = <<>>
    /\ returned = NoCall
    /\ stages = InitialStages

EmptyStorage == [chat |-> [p \in Projects |-> <<>>], status |-> [p \in Projects |-> Null]]

\* no Dashboard mounted yet
InitView ==
    /\ mounted = FALSE
    /\ dashProjectId = NoProject
    /\ status = Null
    /\ files = <<>>
    /\ chatMessages = <<>>
    /\ selectedFile = Null
    /\ isChatLoading = FALSE
    /\ isConnected = FALSE
    /\ awaitingReview = FALSE
    /\ retryCount = 0
    /\ captured = NoCapture
    /\ polls = <<>>
    /\ chatReqs = <<>>
    /\ backoffTimers = <<>>
    /\ now = 0

InitD == InitView /\ localStorage = EmptyStorage

Init == InitT /\ InitR /\ InitD

(***************************************************************************)
(* Committing a task's state updates: the render, then the effects whose    *)
(* dependencies changed (auto-select, persist chat, persist status).        *)
(***************************************************************************)
SetD(d) ==
    /\ files' = d.files
    /\ selectedFile' = d.selectedFile
    /\ chatMessages' = d.chatMessages
    /\ isChatLoading' = d.isChatLoading
    /\ isConnected' = d.isConnected
    /\ awaitingReview' = d.awaitingReview

Commit(d, stat, p) ==
    LET d1 == autoSelect(d)
    IN /\ SetD(d1)
       /\ status' = stat
       /\ localStorage' = persist(localStorage, p, d1.chatMessages, stat,
                                  d1.chatMessages # chatMessages \/ p # dashProjectId,
                                  stat # status \/ p # dashProjectId)

\* this.callbacks.forEach(callback => callback(message))
Publish(m) ==
    LET acc == forEachCallback(callbacks, m, [d |-> D, recv |-> recv, threw |-> FALSE], captured)
    IN /\ Commit(acc.d, status, dashProjectId)
       /\ recv' = acc.recv

removeAt(seq, i) == [j \in 1..(Len(seq) - 1) |-> IF j < i THEN seq[j] ELSE seq[j + 1]]

(***************************************************************************)
(* Transport operations and socket callbacks.                               *)
(***************************************************************************)
Connect(p) ==
    /\ CanConnect([T EXCEPT !.projectId = p])
    /\ SetT(connect(T, p))
    /\ UNCHANGED <<svars, rvars, pvars, dvars, lvars, hvars, now>>

Disconnect ==
    /\ SetT(disconnect(T))
    /\ UNCHANGED <<svars, rvars, pvars, dvars, lvars, hvars, now>>

Subscribe(c) ==
    /\ \A i \in 1..Len(callbacks) : callbacks[i] # c
    /\ callbacks' = Append(callbacks, c)
    /\ UNCHANGED <<tvars, wsOut, recv, rvars, pvars, dvars, lvars, hvars, now>>

Unsubscribe(c) ==
    /\ \E i \in 1..Len(callbacks) : callbacks[i] = c
    /\ callbacks' = removeCallback(callbacks, c)
    /\ UNCHANGED <<tvars, wsOut, recv, rvars, pvars, dvars, lvars, hvars, now>>

SendMessage ==
    /\ wsOut < 1
    /\ wsOut' = IF ws # NoSocket /\ sockets[ws].st = "open" THEN wsOut + 1 ELSE wsOut
    /\ UNCHANGED <<tvars, callbacks, recv, rvars, pvars, dvars, lvars, hvars, now>>

OnOpen(s) ==
    /\ sockets[s].st = "connecting"
    /\ SetT(onopen([T EXCEPT !.sockets[s].st = "open"]))
    /\ Publish(ConnectionStatusMessage(TRUE))
    /\ UNCHANGED <<callbacks, wsOut, rvars, pvars, lvars, retryCount, polls, chatReqs, backoffTimers, now>>

OnMessage(s, frame) ==
    /\ sockets[s].st = "open"
    /\ \A c \in Probes : recv[c].n < MaxRecv
    /\ Len(eventHistory) + Len(pendingImports) + Len(forwarded(frame)) <= MaxEvents
    /\ TypeOf(decode(frame)) \in {"CHAT_MESSAGE", "CHAT_RESPONSE"} => Len(chatMessages) < MaxChat
    /\ pendingImports' = pendingImports \o forwarded(frame)
    /\ LET acc == onmessage(callbacks, frame, [d |-> D, recv |-> recv, threw |-> FALSE], captured)
       IN Commit(acc.d, status, dashProjectId) /\ recv' = acc.recv
    /\ UNCHANGED <<tvars, callbacks, wsOut, listeners, eventHistory, heard, returned, pvars, lvars, retryCount, polls, chatReqs, backoffTimers, now>>

OnClose(s) ==
    /\ sockets[s].st # "free"
    /\ Len(timers) < MaxTimers \/ reconnectAttempts >= maxReconnectAttempts
    /\ SetT(onclose(T, s, \E i \in 1..Len(callbacks) : callbacks[i] = ThrowCb))
    /\ Publish(ConnectionStatusMessage(FALSE))
    /\ UNCHANGED <<callbacks, wsOut, rvars, pvars, lvars, retryCount, polls, chatReqs, backoffTimers, now>>

OnError(s) ==
    /\ sockets[s].st \in {"connecting", "open"}
    /\ SetT(onerror(T, s))
    /\ UNCHANGED <<svars, rvars, pvars, dvars, lvars, hvars, now>>

ReconnectTimer ==
    /\ timers # <<>>
    /\ CanConnect(T)
    /\ SetT(_connect([T EXCEPT !.timers = Tail(@)]))
    /\ UNCHANGED <<svars, rvars, pvars, dvars, lvars, hvars, now>>

\* import('./event_handler').then(({ eventHandler }) => eventHandler.handleEvent(data.event))
ImportResolved ==
    /\ pendingImports # <<>>
    /\ pendingImports' = Tail(pendingImports)
    /\ eventHistory' = Append(eventHistory, Head(pendingImports))
    /\ LET acc == handleEvent(listeners, Head(pendingImports), [stgs |-> stages, heard |-> heard])
       IN stages' = acc.stgs /\ heard' = acc.heard /\ listeners' = acc.ls
    /\ UNCHANGED <<tvars, svars, returned, dvars, lvars, hvars, now>>

\* eventHandler.handleEvent(event), called directly
HandleEvent(event) ==
    /\ Len(eventHistory) + Len(pendingImports) < MaxEvents
    /\ eventHistory' = Append(eventHistory, event)
    /\ LET acc == handleEvent(listeners, event, [stgs |-> stages, heard |-> heard])
       IN stages' = acc.stgs /\ heard' = acc.heard /\ listeners' = acc.ls
    /\ UNCHANGED <<tvars, svars, pendingImports, returned, dvars, lvars, hvars, now>>

\* eventHandler.getHistory(eventType, limit)
GetHistory(eventType, limit) ==
    /\ returned' = [args |-> <<eventType, limit>>, value |-> getHistory(eventHistory, eventType, limit)]
    /\ UNCHANGED <<tvars, svars, listeners, eventHistory, pendingImports, heard, pvars, dvars, lvars, hvars, now>>

\* mutant: the history itself is reversed, not a filtered copy of it
GetCurrentStageInPlace ==
    /\ returned' = [args |-> <<>>, value |-> <<getCurrentStage(eventHistory)>>]
    /\ eventHistory' = reverse(eventHistory)
    /\ UNCHANGED <<tvars, svars, listeners, pendingImports, heard, pvars, dvars, lvars, hvars, now>>

\* eventHandler.getCurrentStage()
GetCurrentStage ==
    /\ returned' = [args |-> <<>>, value |-> <<getCurrentStage(eventHistory)>>]
    /\ UNCHANGED <<tvars, svars, listeners, eventHistory, pendingImports, heard, pvars, dvars, lvars, hvars, now>>

\* eventHandler.clearHistory()
ClearHistory ==
    /\ Len(heard) < MaxEvents
    /\ eventHistory' = <<>>
    /\ UNCHANGED <<tvars, svars, listeners, pendingImports, heard, returned, pvars, dvars, lvars, hvars, now>>

\* eventHandler.on(eventType, callback) and eventHandler.off(eventType, callback)
On(type, cb) ==
    /\ Len(ListenersFor(listeners, type)) < MaxListeners
    /\ listeners' = on(listeners, type, cb)
    /\ UNCHANGED <<tvars, svars, eventHistory, pendingImports, heard, returned, pvars, dvars, lvars, hvars, now>>

\* registering a callback that is not yet registered for the type
OnOnce(type, cb) ==
    /\ indexOf(ListenersFor(listeners, type), cb) = 0
    /\ On(type, cb)

Off(type, cb) ==
    /\ indexOf(ListenersFor(listeners, type), cb) >= 1
    /\ listeners' = off(listeners, type, cb)
    /\ UNCHANGED <<tvars, svars, eventHistory, pendingImports, heard, returned, pvars, dvars, lvars, hvars, now>>

(***************************************************************************)
(* Dashboard life cycle.                                                    *)
(***************************************************************************)
Greeting(t) == [role |-> "ai", content |-> GreetingText, timestamp |-> t]

\* mutant: the greeting replaces whatever the transcript holds
withGreetingAlways(chat, t) == <<Greeting(t)>>

withGreeting(chat, t) == IF Len(chat) = 0 THEN <<Greeting(t)>> ELSE chat

Mount(p) ==
    /\ ~mounted
    /\ CanConnect([T EXCEPT !.projectId = p])
    /\ mounted' = TRUE
    /\ dashProjectId' = p
    /\ captured' = NoCapture
    /\ stages' = InitialStages
    /\ listeners' = on(listeners, "*", TimelineCb(p))
    /\ polls' = <<[proj |-> p, retry |-> 0]>>
    /\ SetT(connect(T, p))
    /\ callbacks' = Append(callbacks, DashCb)
    /\ retryCount' = 0
    /\ Commit([files |-> <<>>, filesChanged |-> FALSE, selectedFile |-> Null,
               chatMessages |-> withGreeting(localStorage.chat[p], now),
               isChatLoading |-> FALSE, isConnected |-> FALSE, awaitingReview |-> FALSE],
              localStorage.status[p], p)
    /\ UNCHANGED <<wsOut, recv, eventHistory, pendingImports, heard, returned, chatReqs, backoffTimers, now>>

SwitchProject(q) ==
    /\ mounted
    /\ q # dashProjectId
    /\ Len(polls) < MaxPolls
    /\ CanConnect([disconnect(T) EXCEPT !.projectId = q])
    /\ dashProjectId' = q
    /\ captured' = [files |-> files, selectedFile |-> selectedFile, retryCount |-> retryCount]
    /\ listeners' = on(off(listeners, "*", TimelineCb(dashProjectId)), "*", TimelineCb(q))
    /\ polls' = Append(polls, [proj |-> q, retry |-> retryCount])
    /\ SetT(connect(disconnect(T), q))
    /\ callbacks' = Append(removeCallback(callbacks, DashCb), DashCb)
    /\ Commit([D EXCEPT !.chatMessages = withGreeting(@, now)], status, q)
    /\ UNCHANGED <<wsOut, recv, eventHistory, pendingImports, heard, returned, pvars, mounted, retryCount, chatReqs, backoffTimers, now>>

Unmount ==
    /\ mounted
    /\ mounted' = FALSE
    /\ dashProjectId' = NoProject
    /\ captured' = NoCapture
    /\ stages' = InitialStages
    /\ listeners' = off(listeners, "*", TimelineCb(dashProjectId))
    /\ SetT(disconnect(T))
    /\ callbacks' = removeCallback(callbacks, DashCb)
    /\ files' = <<>>
    /\ selectedFile' = Null
    /\ chatMessages' = <<>>
    /\ isChatLoading' = FALSE
    /\ isConnected' = FALSE
    /\ awaitingReview' = FALSE
    /\ status' = Null
    /\ retryCount' = 0
    /\ polls' = <<>>
    /\ chatReqs' = <<>>
    /\ backoffTimers' = <<>>
    /\ UNCHANGED <<wsOut, recv, eventHistory, pendingImports, heard, returned, localStorage, now>>

(***************************************************************************)
(* Status polling: setInterval(fetchStatus, 3000) and fetchStatus.          *)
(***************************************************************************)
PollTick ==
    /\ mounted
    /\ Len(polls) < MaxPolls
    /\ polls' = Append(polls, [proj |-> dashProjectId, retry |-> captured.retryCount])
    /\ UNCHANGED <<tvars, svars, rvars, pvars, dvars, lvars, status, retryCount, chatReqs, backoffTimers, localStorage, now>>

PollOk(i, data) ==
    /\ mounted
    /\ i \in 1..Len(polls)
    /\ data.of = polls[i].proj
    /\ polls' = removeAt(polls, i)
    /\ retryCount' = 0
    /\ Commit(IF Len(data.generated_files) > 0
              THEN [D EXCEPT !.files = mergeServerFiles(@, data.generated_files), !.filesChanged = TRUE]
              ELSE D,
              data, dashProjectId)
    /\ UNCHANGED <<tvars, svars, rvars, pvars, lvars, chatReqs, backoffTimers, now>>

\* mutant: a failed poll blanks the view
PollFailBlank(i) ==
    /\ mounted
    /\ i \in 1..Len(polls)
    /\ Len(backoffTimers) < MaxBackoff
    /\ polls' = removeAt(polls, i)
    /\ backoffTimers' = Append(backoffTimers, [delay |-> backoffTimeout(polls[i].retry), proj |-> polls[i].proj])
    /\ Commit([D EXCEPT !.files = <<>>], Null, dashProjectId)
    /\ UNCHANGED <<tvars, svars, rvars, pvars, lvars, retryCount, chatReqs, now>>

PollFail(i) ==
    /\ mounted
    /\ i \in 1..Len(polls)
    /\ Len(backoffTimers) < MaxBackoff
    /\ polls' = removeAt(polls, i)
    /\ backoffTimers' = Append(backoffTimers, [delay |-> backoffTimeout(polls[i].retry), proj |-> polls[i].proj])
    /\ UNCHANGED <<tvars, svars, rvars, pvars, dvars, lvars, status, retryCount, chatReqs, localStorage, now>>

BackoffTimer ==
    /\ mounted
    /\ backoffTimers # <<>>
    /\ retryCount < MaxRetry
    /\ backoffTimers' = Tail(backoffTimers)
    /\ retryCount' = retryCount + 1
    /\ UNCHANGED <<tvars, svars, rvars, pvars, dvars, lvars, status, polls, chatReqs, localStorage, now>>

(***************************************************************************)
(* User actions.                                                            *)
(***************************************************************************)
\* handleSendMessage up to the awaited POST /chat
sendMessage(d, message, t) ==
    [d EXCEPT !.isChatLoading = TRUE, !.chatMessages = optimisticAppend(@, message, t)]

HandleSendMessage(message) ==
    /\ mounted
    /\ Len(chatMessages) < MaxChat
    /\ Len(chatReqs) < MaxChatReqs
    /\ chatReqs' = Append(chatReqs, [proj |-> dashProjectId, message |-> message])
    /\ Commit(sendMessage(D, message, now), status, dashProjectId)
    /\ UNCHANGED <<tvars, svars, rvars, pvars, lvars, retryCount, polls, backoffTimers, now>>

\* mutant: the approval goes out over the live channel instead of POST /chat
HandleApproveOverSocket ==
    /\ mounted
    /\ awaitingReview
    /\ selectedFile # Null
    /\ Len(chatMessages) < MaxChat
    /\ wsOut' = wsOut + 1
    /\ Commit(sendMessage([D EXCEPT !.awaitingReview = FALSE], ApproveText, now), status, dashProjectId)
    /\ UNCHANGED <<tvars, callbacks, recv, rvars, pvars, lvars, retryCount, polls, chatReqs, backoffTimers, now>>

\* the approve button is rendered only with a selected file and awaitingReview
HandleApprove ==
    /\ mounted
    /\ awaitingReview
    /\ selectedFile # Null
    /\ Len(chatMessages) < MaxChat
    /\ Len(chatReqs) < MaxChatReqs
    /\ chatReqs' = Append(chatReqs, [proj |-> dashProjectId, message |-> ApproveText])
    /\ Commit(sendMessage([D EXCEPT !.awaitingReview = FALSE], ApproveText, now), status, dashProjectId)
    /\ UNCHANGED <<tvars, svars, rvars, pvars, lvars, retryCount, polls, backoffTimers, now>>

\* POST /chat answered: the finally block
ChatOk(i) ==
    /\ mounted
    /\ i \in 1..Len(chatReqs)
    /\ chatReqs' = removeAt(chatReqs, i)
    /\ Commit([D EXCEPT !.isChatLoading = FALSE], status, dashProjectId)
    /\ UNCHANGED <<tvars, svars, rvars, pvars, lvars, retryCount, polls, backoffTimers, now>>

\* mutant: the failure is swallowed, nothing is appended to the transcript
ChatFailSilent(i) ==
    /\ mounted
    /\ i \in 1..Len(chatReqs)
    /\ Len(chatMessages) < MaxChat
    /\ chatReqs' = removeAt(chatReqs, i)
    /\ Commit([D EXCEPT !.isChatLoading = FALSE], status, dashProjectId)
    /\ UNCHANGED <<tvars, svars, rvars, pvars, lvars, retryCount, polls, backoffTimers, now>>

\* POST /chat failed: the catch block, then the finally block
ChatFail(i) ==
    /\ mounted
    /\ i \in 1..Len(chatReqs)
    /\ Len(chatMessages) < MaxChat
    /\ chatReqs' = removeAt(chatReqs, i)
    /\ Commit([D EXCEPT !.chatMessages = Append(@, [role |-> "ai", content |-> SendErrorText, timestamp |-> now]),
                        !.isChatLoading = FALSE], status, dashProjectId)
    /\ UNCHANGED <<tvars, svars, rvars, pvars, lvars, retryCount, polls, backoffTimers, now>>

SelectFile(i) ==
    /\ mounted
    /\ i \in 1..Len(files)
    /\ Commit([D EXCEPT !.selectedFile = files[i]], status, dashProjectId)
    /\ UNCHANGED <<tvars, svars, rvars, pvars, lvars, retryCount, polls, chatReqs, backoffTimers, now>>

CloseViewer ==
    /\ mounted
    /\ selectedFile # Null
    /\ Commit([D EXCEPT !.selectedFile = Null], status, dashProjectId)
    /\ UNCHANGED <<tvars, svars, rvars, pvars, lvars, retryCount, polls, chatReqs, backoffTimers, now>>

Tick ==
    /\ now < MaxTime
    /\ now' = now + 1
    /\ UNCHANGED <<tvars, svars, rvars, pvars, dvars, lvars, hvars>>

\* n seconds pass with nothing else happening
Wait(n) ==
    /\ now + n <= MaxClock
    /\ now' = now + n
    /\ UNCHANGED <<tvars, svars, rvars, pvars, dvars, lvars, hvars>>

(***************************************************************************)
(* Specifications.                                                          *)
(***************************************************************************)
\* The transport alone, driven by an arbitrary client.
NextTransport ==
    \/ \E p \in Projects : Connect(p)
    \/ Disconnect
    \/ SendMessage
    \/ Subscribe(ThrowCb)
    \/ \E s \in Slots : OnOpen(s)
    \/ \E s \in Slots : OnClose(s)
    \/ \E s \in Slots : OnError(s)
    \/ ReconnectTimer

SpecTransport == Init /\ [][NextTransport]_vars

\* The transport's decoding of inbound frames, with probe subscribers.
EvStarted == WorkflowEvent("stage_started", "A", "requirements")

DecodeFrames ==
    { TextFrame("garbage"),
      JsonFrame("null", Null),
      JsonFrame("42", [kind |-> "number"]),
      Env(Obj("FOO")),
      Env([kind |-> "object"]),
      Env(Obj("workflow_event")),
      Env(WorkflowEventMessage(EvStarted)),
      Env(Obj("STATUS_UPDATE")) }

NextDecode ==
    \/ \E p \in Projects : Connect(p)
    \/ \E c \in Probes : Subscribe(c)
    \/ \E c \in Probes : Unsubscribe(c)
    \/ \E s \in Slots : OnOpen(s)
    \/ \E s \in Slots, f \in DecodeFrames : OnMessage(s, f)
    \/ ImportResolved

SpecDecode == Init /\ [][NextDecode]_vars

\* The Dashboard's life cycle over the transport and the status polls.
ServerFile(p) == [path |-> p, filename |-> p, content |-> "snapshot"]

Snapshot(p, fs) == [of |-> p, status |-> "running", generated_files |-> fs]

DashSnapshots == {Snapshot(p, <<ServerFile(p)>>) : p \in Projects}

NextDash ==
    \/ \E p \in Projects : Mount(p)
    \/ \E q \in Projects : SwitchProject(q)
    \/ Unmount
    \/ \E s \in Slots : OnOpen(s)
    \/ \E s \in Slots : OnClose(s)
    \/ ReconnectTimer
    \/ PollTick
    \/ \E i \in 1..MaxPolls, data \in DashSnapshots : PollOk(i, data)

SpecDash == Init /\ [][NextDash]_vars

\* The file list: FILE_GENERATED events, poll merges and file selection.
FilePaths == {"a/x", "b/x", "a/y"}

\* the filename is the last segment of the path
basename(path) == IF path = "a/y" THEN "y" ELSE "x"

FileFrames == {Env(FileGeneratedMessage(p, basename(p), c, af)) : p \in FilePaths, c \in {"v1", "v2"}, af \in BOOLEAN}

SnapshotFile(p) == [path |-> p, filename |-> basename(p), content |-> "snapshot"]

FileSnapshots == {Snapshot("A", <<>>), Snapshot("A", <<SnapshotFile("a/x")>>), Snapshot("A", <<SnapshotFile("a/x"), SnapshotFile("b/x")>>)}

NextFiles ==
    \/ Mount("A")
    \/ \E s \in Slots : OnOpen(s)
    \/ \E s \in Slots, f \in FileFrames : OnMessage(s, f)
    \/ \E s \in Slots : OnMessage(s, Env(AwaitingReviewMessage("architecture")))
    \/ PollTick
    \/ \E i \in 1..MaxPolls, data \in FileSnapshots : PollOk(i, data)
    \/ \E i \in 1..(Cardinality(FilePaths) + 2) : SelectFile(i)
    \/ CloseViewer

SpecFiles == Init /\ [][NextFiles]_vars

\* The transcript and the review gate: chat deliveries, sends, approve.
Times == 0..MaxTime

EvArchitectureStarted == WorkflowEvent("stage_started", "A", "architecture")

TranscriptFrames ==
    {Env(ChatMessageType(r, "hi", t)) : r \in {"user", "ai"}, t \in Times}
    \cup {Env(ChatResponseMessage("hi", t)) : t \in Times}

ChatFrames ==
    {Env(ChatResponseMessage("hi", 0)),
     Env(ChatMessageType("user", ApproveText, 0)),
     Env(AwaitingReviewMessage("architecture")),
     Env(FileGeneratedMessage("a/x", "x", "v1", TRUE)),
     Env(WorkflowEventMessage(EvArchitectureStarted))}

NextChat ==
    \/ Mount("A")
    \/ \E s \in Slots : OnOpen(s)
    \/ \E s \in Slots, f \in ChatFrames : OnMessage(s, f)
    \/ \E s \in Slots : OnClose(s)
    \/ ImportResolved
    \/ HandleSendMessage("hi")
    \/ HandleApprove
    \/ \E i \in 1..MaxChatReqs : ChatOk(i)
    \/ \E i \in 1..MaxChatReqs : ChatFail(i)
    \/ Tick

SpecChat == Init /\ [][NextChat]_vars

\* The transcript: chat deliveries, seen also by a second subscriber, and sends.
NextTranscript ==
    \/ Mount("A")
    \/ Subscribe("c1")
    \/ \E s \in Slots : OnOpen(s)
    \/ \E s \in Slots, f \in TranscriptFrames : OnMessage(s, f)
    \/ HandleSendMessage("hi")
    \/ \E i \in 1..MaxChatReqs : ChatOk(i)
    \/ \E i \in 1..MaxChatReqs : ChatFail(i)
    \/ Tick

SpecTranscript == Init /\ [][NextTranscript]_vars

\* The stage map: workflow events through the event router to the timeline.
StageFrames ==
    {Env(WorkflowEventMessage(WorkflowEvent(ty, p, st))) :
        ty \in {"stage_started", "stage_completed", "stage_failed", "agent_thinking", "*"},
        p \in Projects,
        st \in {"requirements", NoStage, "bogus"}}

NextStages ==
    \/ \E p \in Projects : Mount(p)
    \/ \E q \in Projects : SwitchProject(q)
    \/ \E s \in Slots : OnOpen(s)
    \/ \E s \in Slots, f \in StageFrames : OnMessage(s, f)
    \/ ImportResolved

SpecStages == Init /\ [][NextStages]_vars

\* Cache restore: a session that starts with what earlier sessions stored.
StoredChats ==
    {<<>>,
     <<[role |-> "ai", content |-> "earlier", timestamp |-> 0]>>,
     <<[role |-> "user", content |-> "hi", timestamp |-> 0], [role |-> "ai", content |-> "earlier", timestamp |-> 0]>>}

StoredStatus(p) == [of |-> p, status |-> "planning", generated_files |-> <<>>]

StoredCaches ==
    {[chat |-> c, status |-> s] :
        c \in [Projects -> StoredChats],
        s \in {f \in [Projects -> {Null} \cup {StoredStatus(p) : p \in Projects}] :
                  \A p \in Projects : f[p] # Null => f[p].of = p}}

InitStored == InitT /\ InitR /\ InitView /\ localStorage \in StoredCaches

RestoreFrames == {Env(ChatMessageType("ai", "hi", 1))}

RestoreSnapshots == {Snapshot(p, <<>>) : p \in Projects}

NextRestore ==
    \/ \E p \in Projects : Mount(p)
    \/ Unmount
    \/ \E s \in Slots : OnOpen(s)
    \/ \E s \in Slots, f \in RestoreFrames : OnMessage(s, f)
    \/ \E i \in 1..MaxPolls, data \in RestoreSnapshots : PollOk(i, data)
    \/ HandleSendMessage("hi")
    \/ \E i \in 1..MaxChatReqs : ChatFail(i)

SpecRestore == InitStored /\ [][NextRestore]_vars

\* Polling: the interval, failing and succeeding polls, and a connection that drops.
PollSnapshots == {Snapshot("A", fs) : fs \in {<<>>, <<ServerFile("A")>>}}

NextPoll ==
    \/ Mount("A")
    \/ \E s \in Slots : OnOpen(s)
    \/ \E s \in Slots : OnClose(s)
    \/ ReconnectTimer
    \/ PollTick
    \/ \E i \in 1..MaxPolls, data \in PollSnapshots : PollOk(i, data)
    \/ \E i \in 1..MaxPolls : PollFail(i)
    \/ BackoffTimer

SpecPoll == Init /\ [][NextPoll]_vars

\* Reconnecting: one Dashboard whose connection fails and closes again and again
\* while it keeps polling; a pending setTimeout fires.
NextReconnect ==
    \/ Mount("A")
    \/ \E s \in Slots : OnOpen(s)
    \/ \E s \in Slots : OnError(s)
    \/ \E s \in Slots : OnClose(s)
    \/ ReconnectTimer
    \/ PollTick
    \/ \E i \in 1..MaxPolls, data \in PollSnapshots : PollOk(i, data)

SpecReconnect == Init /\ [][NextReconnect]_vars /\ WF_vars(ReconnectTimer)

\* The event router: workflow events dispatched to listeners that come and go.
RouterEvents ==
    {WorkflowEvent(ty, "A", "requirements") : ty \in {"stage_started", "agent_thinking"}}

RouterTypes == {"stage_started", "*"}

NextRouter ==
    \/ \E ev \in RouterEvents : HandleEvent(ev)
    \/ \E type \in RouterTypes, cb \in ListenerCbs : OnOnce(type, cb)
    \/ \E type \in RouterTypes, cb \in ListenerCbs : Off(type, cb)

SpecRouter == Init /\ [][NextRouter]_vars

\* Inbound frames on their way to the subscribers and to the router.
EvThinking == WorkflowEvent("agent_thinking", "A", "requirements")

ForwardFrames ==
    { Env(WorkflowEventMessage(EvStarted)),
      Env(WorkflowEventMessage(EvThinking)),
      Env(Obj("workflow_event")),
      TextFrame("garbage") }

NextForward ==
    \/ Connect("A")
    \/ \E c \in Probes \cup {ThrowCb} : Subscribe(c)
    \/ \E s \in Slots : OnOpen(s)
    \/ \E s \in Slots, f \in ForwardFrames : OnMessage(s, f)
    \/ ImportResolved
    \/ \E type \in RouterTypes : OnOnce(type, [kind |-> "probe", name |-> "l1"])

SpecForward == Init /\ [][NextForward]_vars

\* Sends from the chat box, seconds apart.
NextSend ==
    \/ Mount("A")
    \/ \E message \in {"hi", "yo"} : HandleSendMessage(message)
    \/ \E i \in 1..MaxChatReqs : ChatOk(i)
    \/ \E i \in 1..MaxChatReqs : ChatFail(i)
    \/ \E n \in {1, 4} : Wait(n)

SpecSend == Init /\ [][NextSend]_vars

\* Sends whose POST /chat is always answered, while the socket the mount asked for never
\* opens: an answer that is due is eventually taken.
NextReply ==
    \/ Mount("A")
    \/ \E message \in {"hi", "yo"} : HandleSendMessage(message)
    \/ \E i \in 1..MaxChatReqs : ChatOk(i)
    \/ \E n \in {1, 4} : Wait(n)

SpecReply == Init /\ [][NextReply]_vars /\ WF_vars(\E i \in 1..MaxChatReqs : ChatOk(i))

\* The router with a listener that unregisters itself and an event named like the wildcard.
DispatchEvents == {EvStarted, WorkflowEvent("*", "A", "requirements")}

NextDispatch ==
    \/ \E ev \in DispatchEvents : HandleEvent(ev)
    \/ \E type \in RouterTypes : OnOnce(type, [kind |-> "probe", name |-> "l1"])
    \/ \E type \in RouterTypes : OnOnce(type, OnceCb(type))
    \/ \E type \in RouterTypes : Off(type, [kind |-> "probe", name |-> "l1"])

SpecDispatch == Init /\ [][NextDispatch]_vars

\* The history: events taken by the router and queries of the history.
HistoryTypes == {Given("stage_started"), Omitted}

Limits == {Given(n) : n \in 0..MaxLimit} \cup {Omitted}

HistoryEvents ==
    {WorkflowEvent("stage_failed", "A", NoStage), WorkflowEvent("stage_started", "A", "architecture")}

NextHistory ==
    \/ \E ev \in HistoryEvents : HandleEvent(ev)
    \/ \E type \in HistoryTypes, limit \in Limits : GetHistory(type, limit)
    \/ GetCurrentStage
    \/ ClearHistory
    \/ OnOnce("*", [kind |-> "thrower", name |-> "l2"])
    \/ Off("*", [kind |-> "thrower", name |-> "l2"])

SpecHistory == Init /\ [][NextHistory]_vars

(***************************************************************************)
(* C1.  The transport never has more than one socket that is connecting or  *)
(* open; after connect(p2) the socket of p1 is torn down.                   *)
(***************************************************************************)
C1_AtMostOneLiveSocket == Cardinality({s \in Slots : sockets[s].st \in {"connecting", "open"}}) <= 1

(***************************************************************************)
(* C2.  The attempt counter stays within 0..10; a reconnect is scheduled    *)
(* only by a close that finds the counter below 10, with the 3-second       *)
(* delay, and counts one attempt; the counter returns to 0 only by          *)
(* connect() or a successful open; a socket is created only by connect()    *)
(* or by a scheduled reconnect.  Hence at most 10 reconnects are scheduled  *)
(* between two resets, and none once the counter is 10.                     *)
(***************************************************************************)
C2_ReconnectBound ==
    [][ /\ reconnectAttempts \in 0..10
        /\ reconnectAttempts' \in 0..10
        /\ Len(timers') > Len(timers) =>
              /\ reconnectAttempts < 10
              /\ reconnectAttempts' = reconnectAttempts + 1
              /\ timers' = Append(timers, 3000)
              /\ \E s \in Slots : sockets[s].st # "free" /\ sockets'[s].st = "free"
        /\ reconnectAttempts' # reconnectAttempts =>
              \/ Len(timers') > Len(timers)
              \/ reconnectAttempts' = 0 /\ \E s \in Slots : sockets'[s].st \in {"connecting", "open"} /\ sockets'[s] # sockets[s]
        /\ (\E s \in Slots : sockets[s].st = "free" /\ sockets'[s].st # "free") =>
              \/ timers # <<>> /\ timers' = Tail(timers) /\ reconnectAttempts' = reconnectAttempts
              \/ reconnectAttempts' = 0 /\ timers' = timers
      ]_vars

\* all 10 attempts are used up: nothing is pending and no socket is left
C2_Witness ==
    /\ reconnectAttempts = 10
    /\ timers = <<>>
    /\ projectId # NoProject
    /\ \A s \in Slots : sockets[s].st = "free"

(***************************************************************************)
(* C3.  The close callback of a socket that disconnect() closed opens no    *)
(* socket, schedules no reconnect and leaves the current socket reference   *)
(* and the attempt counter as they are.                                     *)
(***************************************************************************)
C3_LateCloseIsInert ==
    [][ \A s \in Slots :
            (sockets[s].closedBy = "disconnect" /\ OnClose(s)) =>
                /\ ws' = ws
                /\ reconnectAttempts' = reconnectAttempts
                /\ timers' = timers
      ]_vars

(***************************************************************************)
(* C4.  While project B is displayed, nothing originating from another      *)
(* project changes the displayed state: neither an event of a socket that   *)
(* was opened for another project nor the response to a status poll that    *)
(* was issued for another project changes the file list, the transcript,    *)
(* the status snapshot, the connected flag or the stage map.                *)
(***************************************************************************)
C4_StaleEventsChangeNothing ==
    [][ (mounted /\ mounted' /\ dashProjectId' = dashProjectId) =>
          /\ \A s \in Slots :
                (sockets[s].proj \notin {dashProjectId, NoProject} /\ OnClose(s)) =>
                    UNCHANGED <<files, chatMessages, status, isConnected, stages>>
          /\ \A i \in 1..MaxPolls, data \in DashSnapshots :
                (i <= Len(polls) /\ polls[i].proj # dashProjectId /\ PollOk(i, data)) =>
                    UNCHANGED <<files, chatMessages, status, isConnected, stages>>
      ]_vars

(***************************************************************************)
(* C5.  The file list holds one entry per path; after a FILE_GENERATED      *)
(* event the entry of its path holds the event's content; entries of other  *)
(* paths are kept as they are, even when they carry the same filename.      *)
(***************************************************************************)
C5_OneEntryPerPath ==
    [][ /\ \A i, j \in 1..Len(files') : i # j => files'[i].path # files'[j].path
        /\ \A s \in Slots, f \in FileFrames :
              OnMessage(s, f) =>
                  /\ \E i \in 1..Len(files') : files'[i].path = f.value.path /\ files'[i].content = f.value.content
                  /\ \A i \in 1..Len(files) :
                        files[i].path # f.value.path => \E j \in 1..Len(files') : files'[j] = files[i]
      ]_vars

C7_ReviewFlagClearedByApproveOrStageStart ==
    [][
    LET StageStartedProcessed ==
            /\ pendingImports # <<>>
            /\ Head(pendingImports).event_type = "stage_started"
            /\ ImportResolved
    IN  (mounted /\ mounted' /\ awaitingReview) =>
          /\ ~awaitingReview' => (HandleApprove \/ StageStartedProcessed)
          /\ HandleApprove => ~awaitingReview'
          /\ StageStartedProcessed => ~awaitingReview'
      ]_vars

(***************************************************************************)
(* C8.  approve() clears the awaiting-review flag and issues exactly one    *)
(* chat request, with the message "approve", over HTTP and nothing over     *)
(* the live channel; the outcome of the request changes neither the flag    *)
(* nor the number of requests issued.                                       *)
(***************************************************************************)
C8_ApproveSendsOnce ==
    [][ /\ HandleApprove =>
              /\ awaitingReview /\ ~awaitingReview'
              /\ chatReqs' = Append(chatReqs, [proj |-> dashProjectId, message |-> "approve"])
              /\ wsOut' = wsOut
        /\ \A i \in 1..MaxChatReqs :
              (ChatOk(i) \/ ChatFail(i)) =>
                  /\ awaitingReview' = awaitingReview
                  /\ Len(chatReqs') = Len(chatReqs) - 1
                  /\ wsOut' = wsOut
      ]_vars

\* approve was invoked while the connection was down; its request is in flight
C8_Witness ==
    /\ mounted
    /\ ~awaitingReview
    /\ ~isConnected
    /\ \A s \in Slots : sockets[s].st = "free"
    /\ chatReqs = <<[proj |-> "A", message |-> "approve"]>>
    /\ chatMessages[Len(chatMessages)].content = "approve"

(***************************************************************************)
(* C9.  As claimed: a stage's status never moves backwards in               *)
(* pending -> running -> {completed | failed}.                              *)
(***************************************************************************)
C9_StatusNeverMovesBack ==
    [][ LET Rank(st) == CASE st = "pending" -> 0 [] st = "running" -> 1 [] OTHER -> 2 IN
        (mounted /\ mounted') =>
          \A st \in StageNames : Rank(stages'[st].status) >= Rank(stages[st].status)
      ]_vars

(***************************************************************************)
(* C9, as amended.  While the timeline is mounted a stage that has left     *)
(* pending never becomes pending again, and every change of a stage's       *)
(* status is the one its latest event names: a stage_started processed for  *)
(* a completed or failed stage makes it running again.                      *)
(***************************************************************************)
C9_NeverBackToPending ==
    [][ (mounted /\ mounted') =>
          \A st \in StageNames :
              /\ stages[st].status # "pending" => stages'[st].status # "pending"
              /\ stages'[st] # stages[st] =>
                    /\ pendingImports # <<>>
                    /\ Head(pendingImports).stage = st
                    /\ LET ty == Head(pendingImports).event_type
                       IN stages'[st].status = IF ty = "stage_started" THEN "running"
                                               ELSE IF ty = "stage_completed" THEN "completed"
                                               ELSE IF ty = "stage_failed" THEN "failed"
                                               ELSE stages[st].status
      ]_vars

\* a late stage_started after stage_completed: the stage runs again
C9_Witness ==
    \E st \in StageNames :
        /\ stages[st].status = "running"
        /\ Len(stages[st].events) = 2
        /\ stages[st].events[1].event_type = "stage_completed"
        /\ stages[st].events[2].event_type = "stage_started"

(***************************************************************************)
(* C10.  Every envelope handed to a direct subscriber is one of the         *)
(* recognized variants.                                                     *)
(***************************************************************************)
C10_OnlyRecognizedDelivered == \A c \in Probes : recv[c].n > 0 => IsWebSocketMessage(recv[c].last)

C12_HistoryTail ==
    [][ \A type \in HistoryTypes, limit \in Limits : GetHistory(type, limit) =>
          LET matching == IF type = Omitted THEN eventHistory
                          ELSE SelectSeq(eventHistory, LAMBDA e : e.event_type = type[1])
              result == returned'.value
              n == Len(result)
          IN /\ n <= Len(matching)
             /\ result = SubSeq(matching, Len(matching) - n + 1, Len(matching))
             /\ limit = Omitted => result = matching
             /\ limit # Omitted => n = IF limit[1] < Len(matching) THEN limit[1] ELSE Len(matching)
             /\ eventHistory' = eventHistory
      ]_vars

(***************************************************************************)
(* C13.  When the chat request of sendMessage(text) fails, exactly one      *)
(* AI-role error entry is appended to the transcript, a user entry for      *)
(* text precedes it, the loading flag is false afterwards, and no other     *)
(* reducer state changes.                                                   *)
(***************************************************************************)
C13_SendFailure ==
    [][ /\ \A i \in 1..MaxChatReqs : ChatFail(i) =>
              /\ Len(chatMessages') = Len(chatMessages) + 1
              /\ SubSeq(chatMessages', 1, Len(chatMessages)) = chatMessages
              /\ chatMessages'[Len(chatMessages')].role = "ai"
              /\ chatMessages'[Len(chatMessages')].content = SendErrorText
              /\ \E j \in 1..Len(chatMessages) :
                    chatMessages[j].role = "user" /\ chatMessages[j].content = chatReqs[i].message
              /\ ~isChatLoading'
              /\ UNCHANGED <<files, selectedFile, awaitingReview, isConnected, status, stages, retryCount>>
        /\ HandleSendMessage("hi") =>
              \E j \in 1..Len(chatMessages') : chatMessages'[j].role = "user" /\ chatMessages'[j].content = "hi"
      ]_vars

\* a send has failed: the user entry, then the error entry, and nothing in flight
C13_Witness ==
    /\ mounted
    /\ Len(chatMessages) = 3
    /\ chatMessages[2].role = "user" /\ chatMessages[2].content = "hi"
    /\ chatMessages[3].role = "ai" /\ chatMessages[3].content = SendErrorText
    /\ ~isChatLoading
    /\ chatReqs = <<>>

(***************************************************************************)
(* C14.  Mounting the Dashboard for a project p whose chat_p holds a        *)
(* non-empty transcript T and whose status_p holds a snapshot S gives       *)
(* transcript = T (no greeting added) and status = S at once, and leaves    *)
(* the store as it was; while the Dashboard stays mounted for p every       *)
(* change of the transcript or of the status is written under chat_p and    *)
(* status_p, and no other key is written.                                   *)
(***************************************************************************)
C14_CacheRestore ==
    [][ /\ \A p \in Projects :
              Mount(p) =>
                  /\ localStorage.chat[p] # <<>> => chatMessages' = localStorage.chat[p]
                  /\ localStorage.status[p] # Null => status' = localStorage.status[p]
                  /\ (localStorage.chat[p] # <<>> /\ localStorage.status[p] # Null) => localStorage' = localStorage
        /\ mounted' =>
              /\ chatMessages' # chatMessages => localStorage'.chat[dashProjectId'] = chatMessages'
              /\ status' # status => localStorage'.status[dashProjectId'] = status'
              /\ \A q \in Projects \ {dashProjectId'} :
                    /\ localStorage'.chat[q] = localStorage.chat[q]
                    /\ localStorage'.status[q] = localStorage.status[q]
      ]_vars

\* restored for A from a stored transcript and snapshot, then both changed and written back
C14_Witness ==
    /\ mounted /\ dashProjectId = "A"
    /\ Len(chatMessages) = 2
    /\ chatMessages[1] = [role |-> "ai", content |-> "earlier", timestamp |-> 0]
    /\ chatMessages[2] = [role |-> "ai", content |-> "hi", timestamp |-> 1]
    /\ localStorage.chat["A"] = chatMessages
    /\ status = Snapshot("A", <<>>)
    /\ localStorage.status["A"] = status
    /\ localStorage.chat["B"] = <<[role |-> "ai", content |-> "earlier", timestamp |-> 0]>>
    /\ localStorage.status["B"] = StoredStatus("B")

(***************************************************************************)
(* C15.  When the Dashboard for project p unmounts or its project id        *)
(* changes, the cleanup clears the polling interval, removes the            *)
(* subscriber and closes the live connection in that step: right after it   *)
(* no socket opened for p is connecting or open and the Dashboard's         *)
(* callback is subscribed once (after a change) or not at all (after an     *)
(* unmount); and as long as p is not displayed again no status poll is      *)
(* issued for p and no socket is opened for p.                              *)
(***************************************************************************)
C15_CleanupClosesEverything ==
    [][ \A p \in Projects :
          /\ (mounted /\ dashProjectId = p /\ dashProjectId' # p) =>
                /\ \A s \in Slots : sockets'[s].proj = p => sockets'[s].st \notin {"connecting", "open"}
                /\ Cardinality({i \in 1..Len(callbacks') : callbacks'[i] = DashCb}) = IF mounted' THEN 1 ELSE 0
          /\ (dashProjectId # p /\ dashProjectId' # p) =>
                /\ \A s \in Slots :
                      (sockets'[s].proj = p /\ sockets'[s].st = "connecting") =>
                          (sockets[s].proj = p /\ sockets[s].st = "connecting")
                /\ Len(SelectSeq(polls', LAMBDA r : r.proj = p)) <= Len(SelectSeq(polls, LAMBDA r : r.proj = p))
      ]_vars

(***************************************************************************)
(* C16.  A failed status poll leaves the status snapshot, the file list,    *)
(* the transcript, the selected file and the awaiting-review flag           *)
(* unchanged and does not stop polling: while the Dashboard is mounted the  *)
(* interval can issue the next poll whatever the number of failures and     *)
(* the state of the live connection, and a successful poll sets the status  *)
(* snapshot to its response.                                                *)
(***************************************************************************)
C16_PollFailureKeepsState ==
    [][ /\ \A i \in 1..MaxPolls : PollFail(i) =>
              /\ UNCHANGED <<status, files, chatMessages, selectedFile, awaitingReview>>
              /\ mounted'
        /\ (mounted' /\ Len(polls') < MaxPolls) => (ENABLED PollTick)'
        /\ \A i \in 1..MaxPolls, data \in PollSnapshots : PollOk(i, data) => status' = data
      ]_vars

\* every poll so far has failed, the reconnect attempts are used up, and the interval goes on
C16_Witness ==
    /\ mounted
    /\ retryCount = MaxRetry
    /\ status = Null
    /\ reconnectAttempts = maxReconnectAttempts
    /\ timers = <<>>
    /\ \A s \in Slots : sockets[s].st = "free"
    /\ ~isConnected
    /\ polls = <<>>
    /\ ENABLED PollTick

(***************************************************************************)
(* C17.  When the connection closes while the project is active and fewer   *)
(* than 10 reconnect attempts have been used, the close publishes           *)
(* CONNECTION_STATUS{connected:false} (the Dashboard's flag is false) and   *)
(* schedules one reconnect after 3000 ms; the scheduled attempt is          *)
(* eventually made; and when a socket opens the Dashboard's flag is true    *)
(* and the attempt counter is 0.                                            *)
(***************************************************************************)
C17_ReconnectAfterClose ==
    /\ [][ \A s \in Slots :
              /\ (OnClose(s) /\ projectId # NoProject /\ reconnectAttempts < 10) =>
                    /\ timers' = Append(timers, 3000)
                    /\ reconnectAttempts' = reconnectAttempts + 1
                    /\ (mounted => ~isConnected')
              /\ OnOpen(s) =>
                    /\ reconnectAttempts' = 0
                    /\ (mounted => isConnected')
        ]_vars
    /\ \A n \in 1..10 :
          (timers # <<>> /\ reconnectAttempts = n /\ projectId = "A")
              ~> (timers = <<>> /\ reconnectAttempts = n
                    /\ \E s \in Slots : sockets[s] = [st |-> "connecting", proj |-> "A", closedBy |-> "none"])

\* the connection has closed for the third time in a row: flag false, reconnect pending
C17_Witness ==
    /\ mounted
    /\ projectId = "A"
    /\ reconnectAttempts = 3
    /\ timers = <<3000>>
    /\ ~isConnected
    /\ \A s \in Slots : sockets[s].st = "free"

\* C18: for a path carried both by a snapshot's generated_files and by a
\* FILE_GENERATED event, the file list is the same whichever of the two is
\* processed first, it has one entry for the path holding the event's content,
\* and applying the same snapshot a second time changes nothing.
C18_SnapshotEventCommute ==
    mounted =>
        \A data \in FileSnapshots, f \in FileFrames :
            LET serverFiles == data.generated_files
                file == FileOf(f.value)
                snapshotFirst == upsertFile(mergeServerFiles(files, serverFiles), file)
                eventFirst == mergeServerFiles(upsertFile(files, file), serverFiles)
            IN (\E i \in 1..Len(serverFiles) : serverFiles[i].path = file.path) =>
                  /\ snapshotFirst = eventFirst
                  /\ Cardinality({i \in 1..Len(snapshotFirst) : snapshotFirst[i].path = file.path}) = 1
                  /\ \A i \in 1..Len(snapshotFirst) :
                        snapshotFirst[i].path = file.path => snapshotFirst[i].content = file.content
                  /\ mergeServerFiles(eventFirst, serverFiles) = eventFirst
                  /\ mergeServerFiles(mergeServerFiles(files, serverFiles), serverFiles) = mergeServerFiles(files, serverFiles)

\* C19: an AWAITING_REVIEW notice processed while no file is selected and the
\* file list is non-empty selects the most recently added file; with a file
\* selected the selection is unchanged; the notice sets the review flag, and a
\* second identical notice changes nothing more.
C19_ReviewSelectsLatest ==
    [][ \A s \in Slots :
            (mounted /\ OnMessage(s, Env(AwaitingReviewMessage("architecture")))) =>
                /\ awaitingReview'
                /\ (selectedFile = Null /\ Len(files) > 0) => selectedFile' = files[Len(files)]
                /\ selectedFile # Null => selectedFile' = selectedFile
                /\ (awaitingReview /\ selectedFile # Null) => D' = D
      ]_vars

\* C20: the delay scheduled by a failed status poll is min(1000 * 2^k, 10000)
\* for the value k of the poll-failure counter at the failure, the counter
\* being the number of consecutive failures since the last success, and a
\* successful poll returns the counter to 0.
C20_BackoffFromCounter ==
    [][ /\ \A i \in 1..MaxPolls :
              PollFail(i) => backoffTimers'[Len(backoffTimers')].delay = backoffTimeout(retryCount)
        /\ \A i \in 1..MaxPolls, data \in PollSnapshots : PollOk(i, data) => retryCount' = 0
      ]_vars

(***************************************************************************)
(* C21.  A frame that parses to an object of type workflow_event with a     *)
(* nested event is published once to every direct subscriber and its nested *)
(* event is handed once to the router, behind the events of the frames      *)
(* that arrived before it; the router takes the events in that order,       *)
(* appending each once to the history and calling each typed and wildcard   *)
(* listener once.  A workflow_event frame without a nested event and a      *)
(* frame that is not JSON hand nothing to the router.                       *)
(***************************************************************************)
C21_ForwardOnce ==
    [][ LET subscribed(c) == \E i \in 1..Len(callbacks) : callbacks[i] = c
            arrived == eventHistory \o pendingImports
        IN /\ \A s \in Slots, ev \in {EvStarted, EvThinking} :
                  OnMessage(s, Env(WorkflowEventMessage(ev))) =>
                      /\ pendingImports' = Append(pendingImports, ev)
                      /\ eventHistory' = eventHistory
                      /\ \A c \in Probes :
                            recv'[c] = IF subscribed(c)
                                       THEN [last |-> WorkflowEventMessage(ev), n |-> recv[c].n + 1]
                                       ELSE recv[c]
           /\ \A s \in Slots, f \in {Env(Obj("workflow_event")), TextFrame("garbage")} :
                  OnMessage(s, f) => UNCHANGED <<pendingImports, eventHistory>>
           /\ ImportResolved =>
                  LET ev == Head(pendingImports)
                      typed == ListenersFor(listeners, ev.event_type)
                      wild == ListenersFor(listeners, "*")
                      probes == SelectSeq(typed \o wild, LAMBDA cb : cb.kind = "probe")
                  IN /\ eventHistory' = Append(eventHistory, ev)
                     /\ pendingImports' = Tail(pendingImports)
                     /\ heard' = heard \o [i \in 1..Len(probes) |-> [cb |-> probes[i], event |-> ev]]
           /\ eventHistory' \o pendingImports' = arrived
                 \/ \E ev \in {EvStarted, EvThinking} : eventHistory' \o pendingImports' = Append(arrived, ev)
      ]_vars

\* two different events arrived and were taken in arrival order, each heard by the
\* typed and the wildcard listener, each envelope counted once by both subscribers
C21_Witness ==
    LET probe == [kind |-> "probe", name |-> "l1"]
    IN /\ eventHistory = <<EvThinking, EvStarted>>
       /\ pendingImports = <<>>
       /\ callbacks = <<"c1", "c2">>
       /\ \A c \in Probes : recv[c] = [last |-> WorkflowEventMessage(EvStarted), n |-> 2]
       /\ heard = <<[cb |-> probe, event |-> EvThinking], [cb |-> probe, event |-> EvStarted], [cb |-> probe, event |-> EvStarted]>>

(***************************************************************************)
(* C22.  A workflow event taken by the router while the timeline shows      *)
(* project p changes only the stage it names, and only when its project_id  *)
(* is p and its stage is one of the five: the status becomes running,       *)
(* completed or failed for stage_started, stage_completed, stage_failed and *)
(* is unchanged for every other event type, and the event is appended       *)
(* exactly once to the stage's event list.                                  *)
(***************************************************************************)
C22_StageUpdate ==
    [][ (mounted /\ ImportResolved) =>
            LET ev == Head(pendingImports)
                ty == ev.event_type
            IN \A st \in StageNames :
                  stages'[st] =
                      IF ev.project_id = dashProjectId /\ ev.stage = st
                      THEN [status |-> IF ty = "stage_started" THEN "running"
                                       ELSE IF ty = "stage_completed" THEN "completed"
                                       ELSE IF ty = "stage_failed" THEN "failed"
                                       ELSE stages[st].status,
                            events |-> Append(stages[st].events, ev)]
                      ELSE stages[st]
      ]_vars

(***************************************************************************)
(* C23.  Between calls of clearHistory the router's history only grows:     *)
(* handleEvent(e) appends e at the end, also when a callback throws; on,    *)
(* off, getHistory and getCurrentStage leave the history as it is;          *)
(* clearHistory empties it and leaves the registered listeners unchanged.   *)
(***************************************************************************)
C23_HistoryAppendOnly ==
    [][ /\ \A ev \in HistoryEvents : HandleEvent(ev) => eventHistory' = Append(eventHistory, ev)
        /\ ClearHistory => (eventHistory' = <<>> /\ listeners' = listeners)
        /\ GetCurrentStage => eventHistory' = eventHistory
        /\ \A type \in HistoryTypes, limit \in Limits : GetHistory(type, limit) => eventHistory' = eventHistory
        /\ \A type \in RouterTypes, cb \in ListenerCbs :
              (On(type, cb) \/ Off(type, cb)) => eventHistory' = eventHistory
        /\ ~ClearHistory =>
              /\ Len(eventHistory') >= Len(eventHistory)
              /\ SubSeq(eventHistory', 1, Len(eventHistory)) = eventHistory
      ]_vars

\* a throwing wildcard listener heard an event that a clearHistory then removed, a second
\* event was appended after it, and getCurrentStage has read the stage of that one
C23_Witness ==
    LET thrower == [kind |-> "thrower", name |-> "l2"]
        e == WorkflowEvent("stage_started", "A", "architecture")
    IN /\ "*" \in DOMAIN listeners
       /\ listeners["*"] = <<thrower>>
       /\ heard = <<[cb |-> thrower, event |-> WorkflowEvent("stage_failed", "A", NoStage)], [cb |-> thrower, event |-> e]>>
       /\ eventHistory = <<e>>
       /\ returned = [args |-> <<>>, value |-> <<[kind |-> "string", stage |-> "architecture"]>>]

(***************************************************************************)
(* C24.  sendMessage(text) adds a user entry with the text and the time of  *)
(* the call unless the transcript holds a user entry with the same text     *)
(* less than 5 seconds old, in which case it adds nothing; the entry is in  *)
(* the transcript while the chat request is still in flight, and the        *)
(* completion of a request adds no user entry.                              *)
(***************************************************************************)
C24_SendDedup ==
    [][ LET users(chat) == SelectSeq(chat, LAMBDA e : e.role = "user")
        IN /\ \A message \in {"hi", "yo"} :
                  HandleSendMessage(message) =>
                      LET recent == \E i \in 1..Len(chatMessages) :
                                        /\ chatMessages[i].role = "user"
                                        /\ chatMessages[i].content = message
                                        /\ now - chatMessages[i].timestamp < 5
                      IN /\ chatMessages' = IF recent THEN chatMessages
                                            ELSE Append(chatMessages, [role |-> "user", content |-> message, timestamp |-> now])
                         /\ chatReqs' = Append(chatReqs, [proj |-> dashProjectId, message |-> message])
           /\ \A i \in 1..MaxChatReqs :
                  (ChatOk(i) \/ ChatFail(i)) => users(chatMessages') = users(chatMessages)
      ]_vars

\* two sends of the same text exactly 5 seconds apart, each with its own entry, both requests in flight
C24_Witness ==
    /\ mounted
    /\ now = 5
    /\ SelectSeq(chatMessages, LAMBDA e : e.role = "user")
          = <<[role |-> "user", content |-> "hi", timestamp |-> 0], [role |-> "user", content |-> "hi", timestamp |-> 5]>>
    /\ Len(chatReqs) = 2

(***************************************************************************)
(* C25.  Whenever no transport callback is pending (no socket is still      *)
(* connecting or closing, no reconnect timer is set) the Dashboard's        *)
(* connected flag is true exactly when the transport's current socket is    *)
(* an open socket of the active project; and the close event of a socket    *)
(* that is not the current one never turns the flag off while the current   *)
(* socket is open.                                                          *)
(***************************************************************************)
C25_ConnectedFlagFollowsSocket ==
    [][ /\ (mounted' /\ timers' = <<>> /\ \A s \in Slots : sockets'[s].st \in {"free", "open"}) =>
              (isConnected' <=> (ws' # NoSocket /\ sockets'[ws'].st = "open" /\ sockets'[ws'].proj = dashProjectId'))
        /\ \A s \in Slots :
              (mounted /\ ws # NoSocket /\ s # ws /\ sockets[ws].st = "open" /\ isConnected /\ OnClose(s)) => isConnected'
      ]_vars

(***************************************************************************)
(* C26.  When the project id of the mounted Dashboard changes to q, the     *)
(* view shows q's own cached status snapshot and transcript (the greeting   *)
(* when q has no cached transcript), and the change writes nothing of the   *)
(* previous project under status_q or chat_q.                               *)
(***************************************************************************)
C26_CachePerProject ==
    [][ \A q \in Projects :
            SwitchProject(q) =>
                /\ status' = localStorage.status[q]
                /\ chatMessages' = IF localStorage.chat[q] = <<>> THEN <<Greeting(now)>> ELSE localStorage.chat[q]
                /\ localStorage'.status[q] = localStorage.status[q]
                /\ localStorage'.chat[q] \in {localStorage.chat[q], chatMessages'}
      ]_vars

\* C27: whenever a file is selected, the selected file holds the same content as
\* the file-list entry of its path, also after a FILE_GENERATED event without
\* auto_focus has replaced the content of the selected file.
C27_SelectionMatchesList ==
    (mounted /\ selectedFile # Null) =>
        \A i \in 1..Len(files) :
            files[i].path = selectedFile.path => files[i].content = selectedFile.content

(***************************************************************************)
(* C28.  handleEvent calls every callback that is registered, when it is    *)
(* called, for the event's type or as a wildcard, exactly once for each     *)
(* registration: also when a callback unregisters itself during the         *)
(* dispatch and when the event's type is the string "*".                    *)
(***************************************************************************)
C28_OncePerRegistration ==
    [][ \A ev \in DispatchEvents :
            HandleEvent(ev) =>
                LET typed == IF ev.event_type = "*" THEN <<>> ELSE ListenersFor(listeners, ev.event_type)
                    registered == typed \o ListenersFor(listeners, "*")
                IN heard' = heard \o [i \in 1..Len(registered) |-> [cb |-> registered[i], event |-> ev]]
      ]_vars

(***************************************************************************)
(* C29.  While a subscriber that throws on every envelope is subscribed,    *)
(* every frame still gives every other subscriber the envelope decoded     *)
(* from it, once, and nothing more: no subscriber misses it and none is    *)
(* handed a LOG envelope made from the exception.                          *)
(***************************************************************************)
C29_ThrowingSubscriberIsolated ==
    [][ LET subscribed(c) == \E i \in 1..Len(callbacks) : callbacks[i] = c
        IN \A s \in Slots, f \in ForwardFrames :
               OnMessage(s, f) /\ subscribed(ThrowCb) =>
                   \A c \in Probes :
                       recv'[c] = IF subscribed(c)
                                  THEN [last |-> decode(f), n |-> recv[c].n + 1]
                                  ELSE recv[c]
      ]_vars

(***************************************************************************)
(* C30.  While the live connection is down, every chat request that is      *)
(* answered is eventually followed by one more AI entry in the transcript   *)
(* than there was while the request was pending.                           *)
(***************************************************************************)
C30_ReplyNotLost ==
    \A n \in 0..MaxChat :
        LET aiEntries == Cardinality({i \in 1..Len(chatMessages) : chatMessages[i].role = "ai"})
        IN (chatReqs # <<>> /\ aiEntries = n) ~> (aiEntries > n)
====
